---- MODULE Spec2Model ----
(***************************************************************************)
(* Model of pytket-quantinuum's api_wrappers.py: the QuantinuumAPI client  *)
(* (login / token refresh, job status retrieval, the poll and websocket    *)
(* completion waiters), the _OverrideManager timeout scope and the         *)
(* QuantinuumAPIOffline stub.                                              *)
(***************************************************************************)
EXTENDS Integers, Sequences, FiniteSets, TLC

\* ------------------------------------------------------------------ bounds
MaxTimeout == 1      \* configured timeouts range over None, 0..MaxTimeout
MaxClock == 3        \* the clock saturates at MaxClock
MaxFetches == 3      \* status fetches per retrieve_job call
MaxMsgs == 1         \* non-terminal push messages per retrieve_job call
MaxScopes == 1       \* live _OverrideManager objects
NumTokens == 2       \* distinct token values the server hands out
MaxSubmitted == 3    \* jobs submitted to one offline stub
NumBodies == 2       \* distinct job bodies

\* ------------------------------------------------------- program constants
None == -1                       \* Python's None for ints (timeout, tokens)
ERROR_CODE_MFA_REQUIRED == 73
DEFAULT_RETRY_TIMEOUT == 5
WS_TIMEOUT == 180
PING_TIMEOUT == 10
HTTP_OK == 200
HTTP_CREATED == 201
HTTP_BAD_REQUEST == 400
HTTP_UNAUTHORIZED == 401
HTTP_SERVER_ERROR == 500
OTHER_ERROR_CODE == ERROR_CODE_MFA_REQUIRED + 1   \* a login error code that is not 73

JOB_DONE == {"failed", "completed", "canceled"}
AZURE_PROVIDER == "microsoft"
NoProvider == "<None>"           \* provider=None

Min(a, b) == IF a < b THEN a ELSE b

\* --------------------------------------------------------------- exceptions
NoErr == [cls |-> "", msg |-> ""]
Exc(c, m) == [cls |-> c, msg |-> m]
QuantinuumAPIError(m) == Exc("QuantinuumAPIError", m)
RuntimeError(m) == Exc("RuntimeError", m)

\* ------------------------------------------------------- status documents
\* A decoded JSON value: None, a dict (with or without the keys "status" and
\* "websocket", and with or without other keys), or a non-dict value.
Missing == "<missing>"
NonTerminal == {"running"}      \* stands for every status outside JOB_DONE
StatusVals == NonTerminal \cup JOB_DONE
Doc(k, s, w, o) == [kind |-> k, status |-> s, websocket |-> w, other |-> o]
NoneDoc == Doc("None", Missing, FALSE, FALSE)
EmptyDict == Doc("dict", Missing, FALSE, FALSE)
NonDict == Doc("other", Missing, FALSE, FALSE)
Unset == Doc("unset", Missing, FALSE, FALSE)
StatusDoc(s, w) == Doc("dict", s, w, FALSE)

\* bool(jr): None and {} are falsy
Truthy(d) == d.kind # "None" /\ d # EmptyDict

\* "status" in jr and jr["status"] in self.JOB_DONE
IsDoneNoFailed(d) == d.kind = "dict" /\ d.status # Missing /\ d.status \in {"completed", "canceled"}
IsDone(d) == d.kind = "dict" /\ d.status # Missing /\ d.status \in JOB_DONE

\* what GET job/{id} can decode to on a 200 response; the "websocket" key is
\* returned only when the request asked for it (?websocket=true)
StatusBodies(want_ws) ==
    {NoneDoc, EmptyDict}
    \cup {StatusDoc(s, FALSE) : s \in StatusVals}
    \cup (IF want_ws
          THEN {StatusDoc(s, TRUE) : s \in StatusVals} \cup {Doc("dict", Missing, TRUE, FALSE)}
          ELSE {})

\* what json.loads(websocket.recv()) can give
PushMessages ==
    {NonDict, EmptyDict} \cup {StatusDoc(s, FALSE) : s \in StatusVals}

\* ------------------------------------------------------------- HTTP replies
Tokens == 1..NumTokens
LoginReply(c, e, inv, i, r) == [code |-> c, errcode |-> e, invalid |-> inv, idt |-> i, rft |-> r]
LoginReplies ==
    {LoginReply(HTTP_OK, 0, FALSE, i, r) : i \in Tokens, r \in Tokens}
    \cup {LoginReply(HTTP_CREATED, 0, FALSE, 1, 1),
          LoginReply(HTTP_UNAUTHORIZED, ERROR_CODE_MFA_REQUIRED, FALSE, None, None),
          LoginReply(HTTP_UNAUTHORIZED, OTHER_ERROR_CODE, FALSE, None, None),
          LoginReply(HTTP_BAD_REQUEST, OTHER_ERROR_CODE, TRUE, None, None),
          LoginReply(HTTP_BAD_REQUEST, OTHER_ERROR_CODE, FALSE, None, None),
          LoginReply(HTTP_SERVER_ERROR, OTHER_ERROR_CODE, FALSE, None, None)}
StatusCodes == {HTTP_OK, HTTP_CREATED, HTTP_BAD_REQUEST, HTTP_UNAUTHORIZED, HTTP_SERVER_ERROR}

VARIABLES
    provider, support_mfa, use_websocket,   \* constructor configuration
    id_token, refresh_token,                \* the credential store
    timeout, retry_timeout,                 \* mutable timeout configuration
    pc, op, result,                         \* the running operation, its outcome
    now, start_time, jr, ws, run,           \* retrieve_job: clock, locals, channel
    h,                                      \* per-call history of retrieve_job
    lg,                                     \* per-call history of login
    mgrs,                                   \* the live _OverrideManager objects
    lastExit,                               \* what the last __exit__ did
    submitted,                              \* QuantinuumAPIOffline.submitted
    bodies,                                 \* the bodies given to the stub, in call order
    off                                     \* the stub's last operation and its outcome
vars == <<provider, support_mfa, use_websocket, id_token, refresh_token,
          timeout, retry_timeout, pc, op, result, now, start_time, jr, ws, run, h, lg,
          mgrs, lastExit, submitted, bodies, off>>
offVars == <<submitted, bodies, off>>
ovVars == <<mgrs, lastExit>>
cfgVars == <<provider, support_mfa, use_websocket>>
storeVars == <<id_token, refresh_token>>
toVars == <<timeout, retry_timeout>>
rjVars == <<now, start_time, jr, ws, run, h>>

\* ------------------------------------------------------ _response_check
\* the error _response_check raises for a status code, NoErr when it passes
response_check(code, description) ==
    IF code = HTTP_UNAUTHORIZED THEN QuantinuumAPIError("Authorization failure")
    ELSE IF code # HTTP_OK THEN QuantinuumAPIError("HTTP error")
    ELSE NoErr

\* --------------------------------------------------------- credential store
Store(i, r) == [id |-> i, rf |-> r]
save_tokens(st, i, r) == Store(i, r)
delete_credential(st) == Store(None, None)

\* --------------------------------------------------------------- the login
\* Counters of one login() call.
\* creds: _get_credentials calls; posts: login requests with credentials or a
\* provider token; mfa: verification codes prompted; full: full_login calls;
\* refresh: refresh requests; fed: federated token exchanges; inv / bad: refresh
\* replies reporting an invalid refresh token / failing otherwise; ok: replies
\* whose tokens were saved; mfareq: login replies saying MFA is required (401,
\* code 73) to a request that carried no verification code
Zero == [creds |-> 0, posts |-> 0, mfa |-> 0, full |-> 0, refresh |-> 0, fed |-> 0,
         inv |-> 0, bad |-> 0, ok |-> 0, mfareq |-> 0]
Saved(n) == [n EXCEPT !.ok = @ + 1]
Plus(a, b) == [k \in DOMAIN a |-> a[k] + b[k]]
Eff(st, err, n) == [st |-> st, err |-> err, n |-> n]
\* run e, then (when e did not raise) every continuation of f(e.st)
Then(e, f(_)) ==
    IF e.err # NoErr THEN {e}
    ELSE {Eff(x.st, x.err, Plus(e.n, x.n)) : x \in f(e.st)}

\* a _request_tokens that prompts for the code whatever support_mfa says
request_tokens_mfa_unguarded(st) ==
    { LET mfa_required == r1.code = HTTP_UNAUTHORIZED /\ r1.errcode = ERROR_CODE_MFA_REQUIRED
          response == IF mfa_required THEN r2 ELSE r1
          n == [Zero EXCEPT !.posts = IF mfa_required THEN 2 ELSE 1,
                            !.mfa = IF mfa_required THEN 1 ELSE 0,
                            !.mfareq = IF mfa_required THEN 1 ELSE 0]
          chk == response_check(response.code, "Login")
      IN  IF chk # NoErr THEN Eff(st, chk, n)
          ELSE Eff(save_tokens(st, response.idt, response.rft), NoErr, Saved(n))
      : r1 \in LoginReplies, r2 \in LoginReplies }
request_tokens(st) ==
    { LET mfa_required == r1.code = HTTP_UNAUTHORIZED /\ r1.errcode = ERROR_CODE_MFA_REQUIRED
          response == IF mfa_required THEN r2 ELSE r1
          n == [Zero EXCEPT !.posts = IF mfa_required THEN 2 ELSE 1,
                            !.mfa = IF mfa_required THEN 1 ELSE 0,
                            !.mfareq = IF mfa_required THEN 1 ELSE 0]
          chk == response_check(response.code, "Login")
      IN  IF mfa_required /\ ~support_mfa
          THEN Eff(st, QuantinuumAPIError("This API instance does not support MFA login."),
                   [Zero EXCEPT !.posts = 1, !.mfareq = 1])
          ELSE IF chk # NoErr THEN Eff(st, chk, n)
          ELSE Eff(save_tokens(st, response.idt, response.rft), NoErr, Saved(n))
      : r1 \in LoginReplies, r2 \in LoginReplies }

\* str.lower() on the provider names the model uses
Lower(s) == IF s = "Microsoft" THEN "microsoft" ELSE s

request_tokens_federated(st) ==
    IF provider # NoProvider /\ Lower(provider) = AZURE_PROVIDER
    THEN { LET chk == response_check(r.code, "Login")
               n == [Zero EXCEPT !.posts = 1, !.fed = 1]
           IN  IF chk # NoErr THEN Eff(st, chk, n)
               ELSE Eff(save_tokens(st, r.idt, r.rft), NoErr, Saved(n))
           : r \in LoginReplies }
    ELSE {Eff(st, RuntimeError("Unsupported provider for login"), Zero)}

get_credentials(st) == {Eff(st, NoErr, [Zero EXCEPT !.creds = 1])}

\* a full login that asks for the credentials again and retries when the
\* login request failed
full_login_reprompt(st) ==
    LET start == Eff(st, NoErr, [Zero EXCEPT !.full = 1])
        once(s) == UNION {Then(c, request_tokens) : c \in get_credentials(s)}
        again(e) == IF e.err = NoErr THEN {e}
                    ELSE {Eff(x.st, x.err, Plus(e.n, x.n)) : x \in once(e.st)}
    IN  IF provider = NoProvider
        THEN UNION {again(e) : e \in Then(start, once)}
        ELSE Then(start, request_tokens_federated)
full_login(st) ==
    LET start == Eff(st, NoErr, [Zero EXCEPT !.full = 1])
    IN  IF provider = NoProvider
        THEN UNION {Then(c, request_tokens) : c \in Then(start, get_credentials)}
        ELSE Then(start, request_tokens_federated)

\* the refresh request went out and reply r came back
RefreshSent(st, r) ==
    Eff(st, NoErr, [Zero EXCEPT !.refresh = 1,
                                !.inv = IF r.code = HTTP_BAD_REQUEST /\ r.invalid THEN 1 ELSE 0,
                                !.bad = IF r.code # HTTP_OK /\ ~(r.code = HTTP_BAD_REQUEST /\ r.invalid)
                                        THEN 1 ELSE 0])
refresh_id_token_any_failure(st) ==
    UNION { LET sent == RefreshSent(st, r)
                chk == response_check(r.code, "Token Refresh")
            IN  IF chk # NoErr THEN Then(sent, full_login)
                ELSE {Eff(save_tokens(st, r.idt, r.rft), NoErr, Saved(sent.n))}
            : r \in LoginReplies }
\* a _refresh_id_token that saves what the reply holds before checking it
refresh_id_token_saves_first(st) ==
    UNION { LET sent == RefreshSent(st, r)
                chk == response_check(r.code, "Token Refresh")
            IN  IF r.code = HTTP_BAD_REQUEST /\ r.invalid
                THEN Then(sent, full_login)
                ELSE IF chk # NoErr THEN {Eff(save_tokens(st, r.idt, r.rft), chk, sent.n)}
                ELSE {Eff(save_tokens(st, r.idt, r.rft), NoErr, Saved(sent.n))}
            : r \in LoginReplies }
refresh_id_token(st) ==
    UNION { LET sent == RefreshSent(st, r)
                chk == response_check(r.code, "Token Refresh")
            IN  IF r.code = HTTP_BAD_REQUEST /\ r.invalid
                THEN Then(sent, full_login)
                ELSE IF chk # NoErr THEN {Eff(st, chk, sent.n)}
                ELSE {Eff(save_tokens(st, r.idt, r.rft), NoErr, Saved(sent.n))}
            : r \in LoginReplies }

\* login(): the set of its possible outcomes from store st, each with the
\* store it leaves, the error it raises (NoErr: it returns ret) and its counters
LoginResult(e, ret) == [st |-> e.st, err |-> e.err, n |-> e.n, ret |-> ret]
\* a login that returns the id_token it read before the refresh, unchecked
login_stale_id(st) ==
    LET first == IF st.rf = None THEN full_login(st) ELSE {Eff(st, NoErr, Zero)}
        haveRefresh(e) ==
            IF e.err = NoErr /\ e.st.rf = None
            THEN Eff(e.st, QuantinuumAPIError("Unable to retrieve refresh token or authenticate."), e.n)
            ELSE e
        second(s) == IF s.id = None THEN refresh_id_token(s) ELSE {Eff(s, NoErr, Zero)}
        stale(x, before) ==
            IF x.err # NoErr THEN LoginResult(x, None) ELSE LoginResult(x, before)
    IN  UNION {{stale(x, e.st.id) : x \in Then(haveRefresh(e), second)} : e \in first}
login(st) ==
    LET first == IF st.rf = None THEN full_login(st) ELSE {Eff(st, NoErr, Zero)}
        haveRefresh(e) ==
            IF e.err = NoErr /\ e.st.rf = None
            THEN Eff(e.st, QuantinuumAPIError("Unable to retrieve refresh token or authenticate."), e.n)
            ELSE e
        second(s) == IF s.id = None THEN refresh_id_token(s) ELSE {Eff(s, NoErr, Zero)}
        haveId(e) ==
            IF e.err # NoErr THEN LoginResult(e, None)
            ELSE IF e.st.id = None
            THEN LoginResult(Eff(e.st, QuantinuumAPIError("Unable to retrieve id token or refresh or login."), e.n), None)
            ELSE LoginResult(e, e.st.id)
    IN  {haveId(x) : x \in UNION {Then(haveRefresh(e), second) : e \in first}}

\* ------------------------------------------------------------------- Init
\* the outcome of a call: nothing yet, a returned value (a decoded document, a
\* token, a Response with its status code, a string) or a raised exception
NoResult == [kind |-> "none", val |-> NoneDoc, tok |-> None, exc |-> NoErr, code |-> 0, str |-> ""]
Returned(d) == [NoResult EXCEPT !.kind = "return", !.val = d]
ReturnedToken(t) == [NoResult EXCEPT !.kind = "return", !.tok = t]
ReturnedResponse(c) == [NoResult EXCEPT !.kind = "return", !.code = c]
ReturnedStr(x) == [NoResult EXCEPT !.kind = "return", !.str = x]
Raised(e) == [NoResult EXCEPT !.kind = "raise", !.exc = e]

\* the requests one operation sent to the job and machine endpoints: how many,
\* how many login() calls returned before them, the Authorization header of the
\* last one and the token the login() call before it returned, whether every
\* request so far was sent after a login() that returned and carried its token,
\* and the status code of the last response
NoReqs == [sent |-> 0, logins |-> 0, header |-> None, token |-> None, gated |-> TRUE,
           code |-> 0]

\* history of one retrieve_job call: status fetches sent, sleeps, channel opens,
\* poll-loop iterations, push messages received (all / terminal), the first
\* document fetched (Unset while none was) and the most recent one obtained, non-terminal documents fetched, where
\* the call ended, and whether the timeout check fired; handshakes sent on
\* the channel, and the number of the status fetch whose task token and
\* execution reference the last handshake carried
H0 == [fetches |-> 0, sleeps |-> 0, opens |-> 0, polls |-> 0, msgs |-> 0,
       termMsgs |-> 0, first |-> Unset, last |-> NoneDoc, nonTerm |-> 0,
       termFetched |-> 0, from |-> "", timedOut |-> FALSE, interrupted |-> FALSE,
       mode |-> "", reqs |-> NoReqs, handshakes |-> 0, hsFetch |-> 0]
NoRun == [starts |-> 0, in_try |-> FALSE]
\* history of one login() call: the store it found, its counters, and whether
\* it is the first operation after a delete_authentication()
L0 == [pre |-> Store(None, None), n |-> Zero, after_delete |-> FALSE]

\* no __exit__ has run since the last assignment, creation or entry; after one:
\* whether it ended a with block, whether the body raised and the exception
\* propagates, and the override values of the manager
NoExit == [valid |-> FALSE, with |-> FALSE, exc |-> FALSE, propagates |-> FALSE,
           over |-> <<None, None>>]

\* the offline stub has run no operation yet; after one: its name, its outcome,
\* the list get_jobs returned, and self.submitted as the operation found it
NoOff == [op |-> "none", result |-> NoResult, jobs |-> <<>>, before |-> <<>>]

Providers == {NoProvider, "microsoft", "Microsoft", "okta"}

Init ==
    /\ provider \in Providers
    /\ support_mfa \in BOOLEAN
    /\ use_websocket \in BOOLEAN
    /\ id_token = None
    /\ refresh_token = None
    /\ timeout = None
    /\ retry_timeout = DEFAULT_RETRY_TIMEOUT
    /\ pc = "idle"
    /\ op = "none"
    /\ result = NoResult
    /\ now = 0
    /\ start_time = 0
    /\ jr = NoneDoc
    /\ ws = "none"
    /\ run = NoRun
    /\ h = H0
    /\ lg = L0
    /\ mgrs = <<>>
    /\ lastExit = NoExit
    /\ submitted = <<>>
    /\ bodies = <<>>
    /\ off = NoOff

\* ------------------------------------------------------------ login action
Login ==
    /\ pc = "idle"
    /\ \E o \in login(Store(id_token, refresh_token)) :
        /\ id_token' = o.st.id
        /\ refresh_token' = o.st.rf
        /\ lg' = [pre |-> Store(id_token, refresh_token), n |-> o.n,
                  after_delete |-> lg.after_delete]
        /\ result' = IF o.err # NoErr THEN Raised(o.err) ELSE ReturnedToken(o.ret)
    /\ pc' = "done"
    /\ op' = "login"
    /\ UNCHANGED <<offVars, cfgVars, ovVars, toVars, rjVars>>

\* the caller takes the outcome; the client is idle again
Finish ==
    /\ pc = "done"
    /\ pc' = "idle"
    /\ op' = "none"
    /\ result' = NoResult
    /\ now' = 0 /\ start_time' = 0 /\ jr' = NoneDoc /\ ws' = "none" /\ run' = NoRun
    /\ h' = H0
    /\ lg' = [L0 EXCEPT !.after_delete = (op = "delete_authentication")]
    /\ UNCHANGED <<offVars, cfgVars, ovVars, storeVars, toVars>>

\* the access token expires in the store (the store then reports none)
ExpireIdToken ==
    /\ pc = "idle"
    /\ id_token # None
    /\ id_token' = None
    /\ UNCHANGED <<offVars, cfgVars, ovVars, refresh_token, toVars, pc, op, result, rjVars, lg>>

\* delete_authentication() (lines 301-303): what it leaves in the store
delete_authentication_keeps_refresh(st) == Store(None, st.rf)
delete_authentication(st) == delete_credential(st)

DeleteAuthentication ==
    /\ pc = "idle"
    /\ LET st == delete_authentication(Store(id_token, refresh_token))
       IN  id_token' = st.id /\ refresh_token' = st.rf
    /\ pc' = "done"
    /\ op' = "delete_authentication"
    /\ result' = Returned(NoneDoc)
    /\ UNCHANGED <<offVars, cfgVars, ovVars, toVars, rjVars, lg>>

NextLogin == Login \/ Finish \/ ExpireIdToken \/ DeleteAuthentication
SpecLogin == Init /\ [][NextLogin]_vars

\* ------------------------------------------------------------ timeouts
TimeoutVals == {None} \cup (0..MaxTimeout)
RetryVals == {1, DEFAULT_RETRY_TIMEOUT}

\* api.timeout = t; api.retry_timeout = r (plain attribute assignment)
SetTimeouts ==
    /\ pc = "idle"
    /\ \E t \in TimeoutVals, r \in RetryVals :
        /\ timeout' = t
        /\ retry_timeout' = r
    /\ lastExit' = NoExit
    /\ UNCHANGED <<offVars, cfgVars, mgrs, storeVars, pc, op, result, rjVars, lg>>

\* time passes while an operation runs
Tick ==
    /\ pc \notin {"idle", "done", "get_event_loop"}
    /\ now < MaxClock
    /\ now' = now + 1
    /\ UNCHANGED <<offVars, cfgVars, ovVars, storeVars, toVars, pc, op, result, start_time, jr, ws, run, h, lg>>

\* start_time = time.time(): the model's clock counts from this reading
StartClock == now' = 0 /\ start_time' = now'

\* the clock after a wait of d
After(d) == Min(MaxClock, now + d)

\* ------------------------------------------------- retrieve_job_status
UseWsArgs == {"None", "True", "False"}
\* the outcome of an operation that logs in and sends one request: the store
\* it leaves, the error it raises, the decoded body or string it returns,
\* whether the request was sent, its Authorization header, the token login()
\* returned (None: login() raised) and the status code of the response
StatusResult(st, err, doc, sent, tok, ltok, code) ==
    [st |-> st, err |-> err, doc |-> doc, sent |-> sent, tok |-> tok, ltok |-> ltok,
     code |-> code, str |-> ""]
\* outcomes of retrieve_job_status(job_id, arg) from store st: login, then the
\* GET with the token login returned, _response_check, the decoded body
retrieve_job_status(st, arg) ==
    LET want_ws == arg = "True" \/ (arg = "None" /\ use_websocket)
    IN  UNION { IF l.err # NoErr
                THEN {StatusResult(l.st, l.err, NoneDoc, FALSE, None, None, 0)}
                ELSE {StatusResult(l.st, response_check(c, "job status"), NoneDoc, TRUE,
                                   l.ret, l.ret, c)
                        : c \in StatusCodes \ {HTTP_OK}}
                     \cup {StatusResult(l.st, NoErr, d, TRUE, l.ret, l.ret, HTTP_OK)
                             : d \in StatusBodies(want_ws)}
                : l \in login(st) }

\* if self.timeout is not None and time.time() > (start_time + self.timeout)
TimedOut == timeout # None /\ now > start_time + timeout

\* the value _poll_results returns when its loop breaks on the timeout check
PollTimeoutValue == jr
\* the value _wait_results returns when its loop breaks on the timeout check:
\* the function ends without a return statement
WaitTimeoutValue == NoneDoc

\* retrieve_job after the first fetch (lines 371-387): what it does with jr
FirstFetchNextReturnsAbsent(d) ==
    IF ~Truthy(d) THEN "return"
    ELSE IF IsDone(d) THEN "return"
    ELSE IF d.websocket THEN "push"
    ELSE "poll"
FirstFetchNextAlwaysPoll(d) ==
    IF ~Truthy(d) THEN "raise"
    ELSE IF d.websocket THEN "push"
    ELSE "poll"
FirstFetchNext(d) ==
    IF ~Truthy(d) THEN "raise"
    ELSE IF IsDone(d) THEN "return"
    ELSE IF d.websocket THEN "push"
    ELSE "poll"

\* the request ghost after an operation step with outcome o
Requested(rq, o) ==
    [sent |-> rq.sent + (IF o.sent THEN 1 ELSE 0),
     logins |-> rq.logins + (IF o.ltok # None THEN 1 ELSE 0),
     header |-> IF o.sent THEN o.tok ELSE rq.header,
     token |-> IF o.sent THEN o.ltok ELSE rq.token,
     gated |-> rq.gated /\ (o.sent => (o.ltok # None /\ o.tok = o.ltok)),
     code |-> IF o.sent THEN o.code ELSE rq.code]

Fetched(hh, o) ==
    [hh EXCEPT !.reqs = Requested(@, o),
               !.fetches = @ + (IF o.sent THEN 1 ELSE 0),
               !.last = IF o.err = NoErr THEN o.doc ELSE @,
               !.nonTerm = @ + (IF o.err = NoErr /\ o.doc.kind = "dict"
                                   /\ o.doc.status \notin JOB_DONE THEN 1 ELSE 0),
               !.termFetched = @ + (IF o.err = NoErr /\ o.doc.kind = "dict"
                                       /\ o.doc.status \in JOB_DONE THEN 1 ELSE 0)]

\* the call ends: it returns d / raises e to the caller
EndReturn(d, hh, where) ==
    /\ pc' = "done"
    /\ result' = Returned(d)
    /\ h' = [hh EXCEPT !.from = where]
EndRaise(e, hh, where) ==
    /\ pc' = "done"
    /\ result' = Raised(e)
    /\ h' = [hh EXCEPT !.from = where]

\* retrieve_job(job_id, use_websocket): the first status fetch and the dispatch
RetrieveJob ==
    /\ pc = "idle"
    /\ op' = "retrieve_job"
    /\ \E arg \in UseWsArgs :
       \E o \in retrieve_job_status(Store(id_token, refresh_token), arg) :
        LET hh == [Fetched(H0, o) EXCEPT !.first = IF o.err = NoErr THEN o.doc ELSE @]
            next == FirstFetchNext(o.doc)
        IN  /\ id_token' = o.st.id
            /\ refresh_token' = o.st.rf
            /\ IF o.err # NoErr
               THEN EndRaise(o.err, hh, "first") /\ UNCHANGED <<jr, start_time, run>>
               ELSE IF next = "raise"
               THEN /\ EndRaise(QuantinuumAPIError("Unable to retrive job"), hh, "first")
                    /\ jr' = o.doc /\ UNCHANGED <<start_time, run>>
               ELSE IF next = "return"
               THEN EndReturn(o.doc, hh, "first") /\ jr' = o.doc /\ UNCHANGED <<start_time, run>>
               ELSE IF next = "push"
               THEN /\ pc' = "get_event_loop" /\ jr' = o.doc
                    /\ h' = [hh EXCEPT !.mode = "push"]
                    /\ UNCHANGED <<result, start_time, run>>
               ELSE \* _poll_results: jr = None; start_time = time.time()
                    /\ pc' = "poll_top" /\ jr' = NoneDoc /\ start_time' = now
                    /\ h' = [hh EXCEPT !.mode = "poll"]
                    /\ UNCHANGED <<result, run>>
    /\ UNCHANGED <<offVars, cfgVars, ovVars, toVars, now, ws, lg>>

\* ----------------------------------------------------------- _poll_results
\* top of the poll loop (line 394)
PollTop ==
    /\ pc = "poll_top"
    /\ IF TimedOut
       THEN EndReturn(PollTimeoutValue, [h EXCEPT !.timedOut = TRUE], "poll_timeout")
       ELSE /\ pc' = "poll_fetch"
            /\ h' = [h EXCEPT !.polls = @ + 1]
            /\ UNCHANGED result
    /\ UNCHANGED <<offVars, cfgVars, ovVars, storeVars, toVars, op, now, start_time, jr, ws, run, lg>>

\* what the poll loop does with a fetched jr (lines 401-405)
PollNextNotFailed(d) ==
    IF d.kind = "None" THEN "break"
    ELSE IF IsDoneNoFailed(d) THEN "return"
    ELSE "sleep"
PollNextBreaksOnFalsy(d) ==
    IF ~Truthy(d) THEN "break"
    ELSE IF IsDone(d) THEN "return"
    ELSE "sleep"
PollNext(d) ==
    IF d.kind = "None" THEN "break"
    ELSE IF IsDone(d) THEN "return"
    ELSE "sleep"

\* self.login(); jr = self.retrieve_job_status(job_id) (lines 396-404)
PollFetch ==
    /\ pc = "poll_fetch"
    /\ h.fetches < MaxFetches
    /\ \E l \in login(Store(id_token, refresh_token)) :
         IF l.err # NoErr
         THEN /\ EndRaise(l.err, h, "poll")
              /\ id_token' = l.st.id /\ refresh_token' = l.st.rf
              /\ UNCHANGED jr
         ELSE \E o \in retrieve_job_status(l.st, "None") :
              LET hh == Fetched(h, o)
                  next == PollNext(o.doc)
              IN  /\ id_token' = o.st.id
                  /\ refresh_token' = o.st.rf
                  /\ IF o.err # NoErr
                     THEN EndRaise(o.err, hh, "poll") /\ UNCHANGED jr
                     ELSE /\ jr' = o.doc
                          /\ IF next = "break" THEN EndReturn(o.doc, hh, "poll_break")
                             ELSE IF next = "return" THEN EndReturn(o.doc, hh, "poll")
                             ELSE pc' = "poll_sleep" /\ h' = hh /\ UNCHANGED result
    /\ UNCHANGED <<offVars, cfgVars, ovVars, toVars, op, now, start_time, ws, run, lg>>

\* time.sleep(self.retry_timeout) (line 405)
PollSleep ==
    /\ pc = "poll_sleep"
    /\ now' = After(retry_timeout)
    /\ h' = [h EXCEPT !.sleeps = @ + 1]
    /\ pc' = "poll_top"
    /\ UNCHANGED <<offVars, cfgVars, ovVars, storeVars, toVars, op, result, start_time, jr, ws, run, lg>>

\* KeyboardInterrupt inside the poll loop's try block (lines 397-407)
PollInterrupt ==
    /\ pc \in {"poll_fetch", "poll_sleep"}
    /\ EndRaise(RuntimeError("Keyboard Interrupted"), [h EXCEPT !.interrupted = TRUE], "poll")
    /\ UNCHANGED <<offVars, cfgVars, ovVars, storeVars, toVars, op, now, start_time, jr, ws, run, lg>>

NextPoll == SetTimeouts \/ Tick \/ RetrieveJob \/ PollTop \/ PollFetch \/ PollSleep \/ PollInterrupt

\* ----------------------------------------------------------- _wait_results
\* an exception leaves _wait_results. retrieve_job runs it inside
\* "try: loop.run_until_complete(...) except RuntimeError: asyncio.run(...)"
\* (lines 378-383): a RuntimeError raised under run_until_complete starts
\* _wait_results again under asyncio.run; everything else reaches the caller
WaitRaise(e, hh, where) ==
    IF run.in_try /\ e.cls = "RuntimeError"
    THEN /\ pc' = "wait_top"
         /\ StartClock
         /\ run' = [starts |-> run.starts + 1, in_try |-> FALSE]
         /\ h' = hh
         /\ UNCHANGED result
    ELSE EndRaise(e, hh, where) /\ UNCHANGED <<now, start_time, run>>

\* loop = asyncio.get_event_loop() (line 379): the thread has a loop, or
\* get_event_loop raises RuntimeError and asyncio.run is used (line 383);
\* then _wait_results starts: start_time = time.time()
GetEventLoop ==
    /\ pc = "get_event_loop"
    /\ \E has_loop \in BOOLEAN : run' = [starts |-> 1, in_try |-> has_loop]
    /\ pc' = "wait_top"
    /\ StartClock
    /\ UNCHANGED <<offVars, cfgVars, ovVars, storeVars, toVars, op, result, jr, ws, h, lg>>

\* top of the outer wait loop (line 413)
WaitTop ==
    /\ pc = "wait_top"
    /\ IF TimedOut
       THEN EndReturn(WaitTimeoutValue, [h EXCEPT !.timedOut = TRUE], "wait_timeout")
       ELSE pc' = "wait_fetch" /\ UNCHANGED <<result, h>>
    /\ UNCHANGED <<offVars, cfgVars, ovVars, storeVars, toVars, op, now, start_time, jr, ws, run, lg>>

\* what _wait_results does with the fetched jr (lines 417-423)
WaitNext(d) ==
    IF d.kind = "None" THEN "return"
    ELSE IF IsDone(d) THEN "return"
    ELSE IF ~d.websocket THEN "KeyError"
    ELSE "connect"

\* self.login(); jr = self.retrieve_job_status(job_id, True) (lines 415-423)
WaitFetch ==
    /\ pc = "wait_fetch"
    /\ h.fetches < MaxFetches
    /\ \E l \in login(Store(id_token, refresh_token)) :
         IF l.err # NoErr
         THEN /\ WaitRaise(l.err, h, "wait")
              /\ id_token' = l.st.id /\ refresh_token' = l.st.rf
              /\ UNCHANGED jr
         ELSE \E o \in retrieve_job_status(l.st, "True") :
              LET hh == Fetched(h, o)
                  next == WaitNext(o.doc)
              IN  /\ id_token' = o.st.id
                  /\ refresh_token' = o.st.rf
                  /\ IF o.err # NoErr
                     THEN WaitRaise(o.err, hh, "wait") /\ UNCHANGED jr
                     ELSE /\ jr' = o.doc
                          /\ IF next = "return"
                             THEN EndReturn(o.doc, hh, "wait_fetch") /\ UNCHANGED <<now, start_time, run>>
                             ELSE IF next = "KeyError"
                             THEN WaitRaise(Exc("KeyError", "websocket"), hh, "wait")
                             ELSE /\ pc' = "ws_connect" /\ h' = hh
                                  /\ UNCHANGED <<result, now, start_time, run>>
    /\ UNCHANGED <<offVars, cfgVars, ovVars, toVars, op, ws, lg>>

\* async with connect(websocket_uri) as websocket (line 425)
WsConnect ==
    /\ pc = "ws_connect"
    /\ \/ /\ ws' = "open"
          /\ pc' = "ws_send"
          /\ h' = [h EXCEPT !.opens = @ + 1]
          /\ UNCHANGED <<result, now, start_time, run>>
       \/ /\ WaitRaise(Exc("OSError", "connect failed"), h, "wait")
          /\ UNCHANGED ws
    /\ UNCHANGED <<offVars, cfgVars, ovVars, storeVars, toVars, op, jr, lg>>

\* await websocket.send(json.dumps(body)) (lines 426-431)
WsSend ==
    /\ pc = "ws_send"
    /\ \/ /\ pc' = "ws_recv"
          /\ h' = [h EXCEPT !.handshakes = @ + 1, !.hsFetch = h.fetches]
          /\ UNCHANGED <<result, now, start_time, run, ws>>
       \/ /\ WaitRaise(Exc("ConnectionClosed", "send"), h, "wait")
          /\ ws' = "none"
    /\ UNCHANGED <<offVars, cfgVars, ovVars, storeVars, toVars, op, jr, lg>>

\* what the receive loop does with a decoded message (lines 437-441)
RecvNextNotFailed(m) ==
    IF m.kind # "dict" THEN "RuntimeError"
    ELSE IF IsDoneNoFailed(m) THEN "return"
    ELSE "continue"
RecvNext(m) ==
    IF m.kind # "dict" THEN "RuntimeError"
    ELSE IF IsDone(m) THEN "return"
    ELSE "continue"

\* res = await asyncio.wait_for(websocket.recv(), timeout=self.ws_timeout):
\* a message arrives (lines 437-441)
WsRecvMessage ==
    /\ pc = "ws_recv"
    /\ ws = "open"
    /\ \E m \in PushMessages :
        LET next == RecvNext(m)
            hh == [h EXCEPT !.msgs = @ + 1, !.last = m,
                            !.termMsgs = @ + (IF m.kind = "dict" /\ m.status \in JOB_DONE
                                              THEN 1 ELSE 0)]
        IN  /\ jr' = m
            /\ IF next = "RuntimeError"
               THEN WaitRaise(RuntimeError("Unable to decode response."), hh, "recv") /\ ws' = "none"
               ELSE IF next = "return"
               THEN EndReturn(m, hh, "recv") /\ ws' = "none" /\ UNCHANGED <<now, start_time, run>>
               ELSE /\ h.msgs < MaxMsgs
                    /\ h' = hh
                    /\ UNCHANGED <<pc, result, ws, now, start_time, run>>
    /\ UNCHANGED <<offVars, cfgVars, ovVars, storeVars, toVars, op, lg>>

\* the receive times out after ws_timeout, or the peer has closed the
\* connection: both are caught at lines 442-445 and lead to the ping
WsRecvFails ==
    /\ pc = "ws_recv"
    /\ \/ ws = "open" /\ now' = After(WS_TIMEOUT) /\ ws' = ws
       \/ ws' = "closed" /\ now' = now
    /\ pc' = "ws_ping"
    /\ UNCHANGED <<offVars, cfgVars, ovVars, storeVars, toVars, op, result, start_time, jr, run, h, lg>>

\* KeyboardInterrupt inside the receive loop's try block (lines 456-457)
WsInterrupt ==
    /\ pc = "ws_recv"
    /\ WaitRaise(RuntimeError("Keyboard Interrupted"), [h EXCEPT !.interrupted = TRUE], "recv")
    /\ ws' = "none"
    /\ UNCHANGED <<offVars, cfgVars, ovVars, storeVars, toVars, op, jr, lg>>

\* pong = await websocket.ping(); await asyncio.wait_for(pong, timeout=10)
\* (lines 446-455): the pong arrives, the wait for it times out, or the
\* connection is closed and ConnectionClosed is raised (no handler catches it)
WsPing ==
    /\ pc = "ws_ping"
    /\ \/ /\ ws = "open"
          /\ pc' = "ws_recv"
          /\ UNCHANGED <<now, ws, result, start_time, run, h>>
       \/ /\ ws = "open"
          /\ now' = After(PING_TIMEOUT)
          /\ pc' = "ws_sleep"
          /\ UNCHANGED <<ws, result, start_time, run, h>>
       \/ /\ WaitRaise(Exc("ConnectionClosed", "ping"), h, "ping")
          /\ ws' = "none"
    /\ UNCHANGED <<offVars, cfgVars, ovVars, storeVars, toVars, op, jr, lg>>

\* await asyncio.sleep(self.retry_timeout); break (lines 454-455): the channel
\* is left and the outer loop starts over
WsSleepLeavesOpen ==
    /\ pc = "ws_sleep"
    /\ now' = After(retry_timeout)
    /\ h' = [h EXCEPT !.sleeps = @ + 1]
    /\ pc' = "wait_top"
    /\ UNCHANGED <<offVars, cfgVars, ovVars, storeVars, toVars, op, result, start_time, jr, ws,
                   run, lg>>
WsSleepKeepsChannel ==
    /\ pc = "ws_sleep"
    /\ now' = After(retry_timeout)
    /\ h' = [h EXCEPT !.sleeps = @ + 1]
    /\ pc' = "ws_recv"
    /\ UNCHANGED <<offVars, cfgVars, ovVars, storeVars, toVars, op, result, start_time, jr, ws,
                   run, lg>>
WsSleep ==
    /\ pc = "ws_sleep"
    /\ now' = After(retry_timeout)
    /\ h' = [h EXCEPT !.sleeps = @ + 1]
    /\ ws' = "none"
    /\ pc' = "wait_top"
    /\ UNCHANGED <<offVars, cfgVars, ovVars, storeVars, toVars, op, result, start_time, jr, run, lg>>

NextWait == GetEventLoop \/ WaitTop \/ WaitFetch \/ WsConnect \/ WsSend \/ WsRecvMessage
            \/ WsRecvFails \/ WsInterrupt \/ WsPing \/ WsSleep


\* the waiters, for a client constructed without a federated provider
InitRetrieve == Init /\ provider = NoProvider /\ support_mfa
NextRetrieve == Finish \/ NextPoll \/ NextWait
SpecRetrieve == InitRetrieve /\ [][NextRetrieve]_vars
\* the running call keeps taking its next step and the clock keeps advancing
\* (until it saturates); what the server and the channel answer is not fair
SpecRetrieveFair ==
    /\ SpecRetrieve
    /\ WF_vars(Tick)
    /\ WF_vars(PollTop \/ PollFetch \/ PollSleep)
    /\ WF_vars(NextWait)

\* ---------------------------------------- submit, cancel, machine status
\* _submit_job(body) (lines 305-312): login, then the POST with the token as
\* Authorization header; the Response is returned as it is
submit_job_stored_token(st) ==
    {StatusResult(st, NoErr, NoneDoc, TRUE, st.id, None, c) : c \in StatusCodes}
submit_job(st) ==
    UNION { IF l.err # NoErr
            THEN {StatusResult(l.st, l.err, NoneDoc, FALSE, None, None, 0)}
            ELSE {StatusResult(l.st, NoErr, NoneDoc, TRUE, l.ret, l.ret, c) : c \in StatusCodes}
            : l \in login(st) }

Is2xx(code) == code \div 100 = 2
\* the caller's check of the Response _submit_job returned: a non-2xx response
\* is a submission error
submit_check(code) ==
    IF ~Is2xx(code) THEN Exc("SubmissionError", "HTTP error submitting job") ELSE NoErr

\* what POST job/{id}/cancel can decode to on a 200 response
CancelBodies == {EmptyDict, StatusDoc("canceled", FALSE)}
\* cancel(job_id) (lines 478-495)
cancel_stored_token(st) ==
    {StatusResult(st, response_check(c, "job cancel"), NoneDoc, TRUE, st.id, None, c)
        : c \in StatusCodes \ {HTTP_OK}}
    \cup {StatusResult(st, NoErr, d, TRUE, st.id, None, HTTP_OK) : d \in CancelBodies}
cancel(st) ==
    UNION { IF l.err # NoErr
            THEN {StatusResult(l.st, l.err, NoneDoc, FALSE, None, None, 0)}
            ELSE {StatusResult(l.st, response_check(c, "job cancel"), NoneDoc, TRUE,
                               l.ret, l.ret, c)
                    : c \in StatusCodes \ {HTTP_OK}}
                 \cup {StatusResult(l.st, NoErr, d, TRUE, l.ret, l.ret, HTTP_OK)
                         : d \in CancelBodies}
            : l \in login(st) }

\* jr["state"] of GET machine/{name} on a 200 response; Missing: no such key
MachineStates == {"online", Missing}
\* status(machine) (lines 459-476)
status(st) ==
    UNION { IF l.err # NoErr
            THEN {StatusResult(l.st, l.err, NoneDoc, FALSE, None, None, 0)}
            ELSE {StatusResult(l.st, response_check(c, "get machine status"), NoneDoc, TRUE,
                               l.ret, l.ret, c)
                    : c \in StatusCodes \ {HTTP_OK}}
                 \cup {[StatusResult(l.st,
                                     IF x = Missing THEN Exc("KeyError", "state") ELSE NoErr,
                                     NoneDoc, TRUE, l.ret, l.ret, HTTP_OK)
                          EXCEPT !.str = x]
                         : x \in MachineStates}
            : l \in login(st) }

\* an operation that logs in and sends one request ends with outcome o
EndRequest(o, name, ret) ==
    /\ id_token' = o.st.id
    /\ refresh_token' = o.st.rf
    /\ h' = [H0 EXCEPT !.reqs = Requested(NoReqs, o)]
    /\ result' = IF o.err # NoErr THEN Raised(o.err) ELSE ret
    /\ pc' = "done"
    /\ op' = name
    /\ UNCHANGED <<offVars, cfgVars, ovVars, toVars, now, start_time, jr, ws, run, lg>>

SubmitJob ==
    /\ pc = "idle"
    /\ \E o \in submit_job(Store(id_token, refresh_token)) :
         EndRequest(o, "_submit_job", ReturnedResponse(o.code))

\* submit: _submit_job, then the check of its Response; the job id is returned
Submit ==
    /\ pc = "idle"
    /\ \E o \in submit_job(Store(id_token, refresh_token)) :
         IF o.err = NoErr /\ submit_check(o.code) # NoErr
         THEN EndRequest([o EXCEPT !.err = submit_check(o.code)], "submit", NoResult)
         ELSE EndRequest(o, "submit", ReturnedStr("job_id"))

Cancel ==
    /\ pc = "idle"
    /\ \E o \in cancel(Store(id_token, refresh_token)) :
         EndRequest(o, "cancel", Returned(o.doc))

MachineStatus ==
    /\ pc = "idle"
    /\ \E o \in status(Store(id_token, refresh_token)) :
         EndRequest(o, "status", ReturnedStr(o.str))

JobStatus ==
    /\ pc = "idle"
    /\ \E arg \in UseWsArgs :
       \E o \in retrieve_job_status(Store(id_token, refresh_token), arg) :
         EndRequest(o, "retrieve_job_status", Returned(o.doc))

NextJobs == SubmitJob \/ Submit \/ Cancel \/ MachineStatus \/ JobStatus
            \/ Finish \/ ExpireIdToken \/ DeleteAuthentication
SpecJobs == Init /\ [][NextJobs]_vars

\* -------------------------------------------------------- _OverrideManager
\* _OverrideManager.__init__ (lines 47-57): the override values and the
\* handler's values at construction; entered / with_block / pre_* record how
\* the object is used: whether __enter__ has run, whether it is the subject of
\* a with statement, and the handler's values just before __enter__ ran
Manager(t, r, w) ==
    [_timeout |-> t, _retry |-> r, _orig_timeout |-> timeout, _orig_retry |-> retry_timeout,
     entered |-> FALSE, with_block |-> w, pre_t |-> None, pre_r |-> None]

\* __enter__ (lines 59-63): the handler's values after it
enter_timeout(m) == IF m._timeout # None THEN m._timeout ELSE timeout
enter_retry(m) == IF m._retry # None THEN m._retry ELSE retry_timeout
Entered(m) == [m EXCEPT !.entered = TRUE, !.pre_t = timeout, !.pre_r = retry_timeout]

\* __exit__ (lines 65-67): the handler's values after it, whether or not the
\* body raised
exit_values_unless_raised(m, exc) ==
    IF exc THEN <<timeout, retry_timeout>> ELSE <<m._orig_timeout, m._orig_retry>>
exit_values(m, exc) == <<m._orig_timeout, m._orig_retry>>
\* __exit__ returns None: the with statement re-raises the body's exception
exit_suppresses(m) == FALSE

\* the override values tried: each of timeout and retry_timeout given or not
OverrideVals == {<<t, r>> : t \in {None, MaxTimeout}, r \in {None, 1}}
Remove(seq, i) == SubSeq(seq, 1, i - 1) \o SubSeq(seq, i + 1, Len(seq))

\* m = api.override_timeouts(timeout=t, retry_timeout=r) (lines 151-154)
OverrideTimeouts ==
    /\ pc = "idle"
    /\ Len(mgrs) < MaxScopes
    /\ \E v \in OverrideVals : mgrs' = Append(mgrs, Manager(v[1], v[2], FALSE))
    /\ lastExit' = NoExit
    /\ UNCHANGED <<offVars, cfgVars, storeVars, toVars, pc, op, result, rjVars, lg>>

\* m.__enter__() on a manager made earlier
ManagerEnter ==
    /\ pc = "idle"
    /\ \E i \in 1..Len(mgrs) :
        /\ ~mgrs[i].entered
        /\ timeout' = enter_timeout(mgrs[i])
        /\ retry_timeout' = enter_retry(mgrs[i])
        /\ mgrs' = [mgrs EXCEPT ![i] = Entered(@)]
    /\ lastExit' = NoExit
    /\ UNCHANGED <<offVars, cfgVars, storeVars, pc, op, result, rjVars, lg>>

\* with api.override_timeouts(timeout=t, retry_timeout=r): the manager is
\* constructed and entered by the with statement
WithEnter ==
    /\ pc = "idle"
    /\ Len(mgrs) < MaxScopes
    /\ \E v \in OverrideVals :
        LET m == Manager(v[1], v[2], TRUE)
        IN  /\ timeout' = enter_timeout(m)
            /\ retry_timeout' = enter_retry(m)
            /\ mgrs' = Append(mgrs, Entered(m))
    /\ lastExit' = NoExit
    /\ UNCHANGED <<offVars, cfgVars, storeVars, pc, op, result, rjVars, lg>>

\* with blocks nest: one ends only after every with block entered inside it
Innermost(i) == \A j \in (i + 1)..Len(mgrs) : ~(mgrs[j].with_block /\ mgrs[j].entered)

\* m.__exit__(...): the scope ends, its body having raised (exc) or not, and
\* the manager is dropped
ManagerExit ==
    /\ pc = "idle"
    /\ \E i \in 1..Len(mgrs), exc \in BOOLEAN :
        LET m == mgrs[i]
            v == exit_values(m, exc)
        IN  /\ m.entered
            /\ m.with_block => Innermost(i)
            /\ timeout' = v[1]
            /\ retry_timeout' = v[2]
            /\ mgrs' = Remove(mgrs, i)
            /\ lastExit' = [valid |-> TRUE, with |-> m.with_block, exc |-> exc,
                            propagates |-> exc /\ ~exit_suppresses(m),
                            over |-> <<m._timeout, m._retry>>]
    /\ UNCHANGED <<offVars, cfgVars, storeVars, pc, op, result, rjVars, lg>>

\* a manager that is not entered is dropped
ManagerDiscard ==
    /\ pc = "idle"
    /\ \E i \in 1..Len(mgrs) :
        /\ ~mgrs[i].entered
        /\ mgrs' = Remove(mgrs, i)
    /\ lastExit' = NoExit
    /\ UNCHANGED <<offVars, cfgVars, storeVars, toVars, pc, op, result, rjVars, lg>>

InitOverride == Init /\ provider = NoProvider /\ support_mfa /\ use_websocket
NextOverride == SetTimeouts \/ OverrideTimeouts \/ ManagerEnter \/ WithEnter
                \/ ManagerExit \/ ManagerDiscard
SpecOverride == InitOverride /\ [][NextOverride]_vars

\* ------------------------------------------------- QuantinuumAPIOffline
Bodies == 1..NumBodies

\* _submit_job(body) (lines 574-582): self.submitted after it
offline_submit_job_newest_first(sub, body) == <<body>> \o sub
offline_submit_job(sub, body) == Append(sub, body)
\* get_jobs() (lines 584-589)
offline_get_jobs(sub) == sub

OfflineSubmitJob ==
    /\ Len(submitted) < MaxSubmitted
    /\ \E body \in Bodies :
        /\ submitted' = offline_submit_job(submitted, body)
        /\ bodies' = Append(bodies, body)
    /\ off' = [op |-> "_submit_job", result |-> Returned(NoneDoc), jobs |-> <<>>,
               before |-> submitted]
    /\ UNCHANGED <<cfgVars, storeVars, toVars, pc, op, result, rjVars, lg, ovVars>>

OfflineGetJobs ==
    /\ off' = [op |-> "get_jobs", result |-> NoResult, jobs |-> offline_get_jobs(submitted),
               before |-> submitted]
    /\ UNCHANGED <<submitted, bodies, cfgVars, storeVars, toVars, pc, op, result, rjVars, lg,
                   ovVars>>

\* an operation of the stub that only returns or raises
OfflineCall(name, res) ==
    /\ off' = [op |-> name, result |-> res, jobs |-> <<>>, before |-> submitted]
    /\ UNCHANGED <<submitted, bodies, cfgVars, storeVars, toVars, pc, op, result, rjVars, lg,
                   ovVars>>

\* _get_machine_list() (lines 557-562)
OfflineGetMachineList == OfflineCall("_get_machine_list", ReturnedStr("<machine_list>"))
\* full_login() (lines 564-567)
OfflineFullLogin == OfflineCall("full_login", Returned(NoneDoc))
\* login() (lines 569-572)
OfflineLogin == OfflineCall("login", ReturnedStr(""))
\* _response_check(res, description) (lines 591-600)
OfflineResponseCheck ==
    OfflineCall("_response_check",
                Raised(QuantinuumAPIError("Reponse can't be checked offline")))
\* retrieve_job_status(job_id, use_websocket) (lines 602-611)
OfflineRetrieveJobStatus ==
    OfflineCall("retrieve_job_status",
                Raised(QuantinuumAPIError("Can't retrieve job status offline")))
\* retrieve_job(job_id, use_websocket) (lines 613-620)
OfflineRetrieveJobReturnsNone == OfflineCall("retrieve_job", Returned(NoneDoc))
OfflineRetrieveJob ==
    OfflineCall("retrieve_job",
                Raised(QuantinuumAPIError("Can't retrieve job status offline")))
\* status(machine) (lines 622-625)
OfflineStatus == OfflineCall("status", ReturnedStr("unclear"))
\* cancel(job_id) (lines 627-629)
OfflineCancel ==
    OfflineCall("cancel", Raised(QuantinuumAPIError("Can't cancel job offline")))

InitOffline == Init /\ provider = NoProvider /\ support_mfa /\ use_websocket
NextOffline == OfflineSubmitJob \/ OfflineGetJobs \/ OfflineGetMachineList
               \/ OfflineFullLogin \/ OfflineLogin \/ OfflineResponseCheck
               \/ OfflineRetrieveJobStatus \/ OfflineRetrieveJob \/ OfflineStatus
               \/ OfflineCancel
SpecOffline == InitOffline /\ [][NextOffline]_vars

\* the whole client
Next == NextLogin \/ NextPoll \/ NextWait \/ NextOverride \/ NextJobs \/ NextOffline
Spec == Init /\ [][Next]_vars

\* =================================================================== claims
\* the terminal status set of the specification
Terminal(d) == d.kind = "dict" /\ d.status \in {"failed", "completed", "canceled"}
InRetrieve == op = "retrieve_job"

\* C1: when the first status fetch returns a terminal document, retrieve_job
\* returns that document after exactly one status fetch, with no sleep, no
\* channel open and no poll iteration, whatever the timeout (0 and None too).
C1_TerminalFirstFetchReturnsAtOnce ==
    (InRetrieve /\ Terminal(h.first)) =>
        /\ pc = "done"
        /\ result = Returned(h.first)
        /\ h.fetches = 1 /\ h.sleeps = 0 /\ h.opens = 0 /\ h.polls = 0
        /\ run.starts = 0
C1_Witness ==
    /\ InRetrieve /\ pc = "done" /\ timeout = 0
    /\ Terminal(h.first) /\ result = Returned(h.first)

\* C2: poll mode, no timeout: once the server has answered the fetches with k
\* non-terminal documents and then a terminal one, retrieve_job has returned
\* that terminal document and sent exactly k fetches beyond the first.
C2_PollReturnsFirstTerminal ==
    (InRetrieve /\ h.mode = "poll" /\ timeout = None /\ h.termFetched >= 1) =>
        /\ pc = "done"
        /\ result = Returned(h.last)
        /\ Terminal(h.last)
        /\ h.termFetched = 1
        /\ h.nonTerm >= 1
        /\ h.fetches - 1 = h.nonTerm
C2_Witness ==
    /\ InRetrieve /\ h.mode = "poll" /\ timeout = None /\ pc = "done"
    /\ h.nonTerm = 2 /\ h.fetches = 3
    /\ result = Returned(StatusDoc("completed", FALSE))

\* C3: push mode: once the channel has delivered a terminal document,
\* retrieve_job has returned it (the first terminal one of the stream), and
\* the poll loop is never entered during the call.
C3_PushReturnsFirstTerminalMessage ==
    (InRetrieve /\ h.mode = "push") =>
        /\ h.polls = 0
        /\ pc \notin {"poll_top", "poll_fetch", "poll_sleep"}
        /\ h.termMsgs >= 1 =>
              /\ pc = "done"
              /\ result = Returned(h.last)
              /\ Terminal(h.last)
              /\ h.termMsgs = 1
C3_Witness ==
    /\ InRetrieve /\ h.mode = "push" /\ pc = "done"
    /\ h.msgs = 2 /\ h.termMsgs = 1
    /\ result = Returned(StatusDoc("failed", FALSE))

\* C4: poll mode with a timeout: when the timeout check at the top of a
\* poll-loop iteration fires (the very first iteration included), retrieve_job
\* returns the most recently fetched status document of the call.
C4_PollTimeoutReturnsLastFetched ==
    (InRetrieve /\ pc = "done" /\ h.from = "poll_timeout") =>
        result = Returned(h.last)

\* C5: push mode with a timeout: when the timeout check at the top of the
\* outer wait loop fires, retrieve_job returns the most recently obtained
\* status document of the call (from a fetch or a push message).
C5_WaitTimeoutReturnsLastObtained ==
    (InRetrieve /\ pc = "done" /\ h.from = "wait_timeout") =>
        result = Returned(h.last)

\* C6 as stated: if the initial status fetch yields no document at all,
\* retrieve_job stops and returns that absence; it neither loops nor raises.
C6_AbsentFirstFetchIsReturned ==
    (InRetrieve /\ h.first = NoneDoc) =>
        pc = "done" /\ result = Returned(NoneDoc)
\* C6 amended: if the initial status fetch yields no document at all,
\* retrieve_job stops without looping (one fetch, no sleep, no channel, no poll
\* iteration) and raises an error; a fetch inside the poll loop that yields no
\* document stops the loop and the absence is returned, without raising.
C6_AbsentFirstFetchRaises ==
    /\ (InRetrieve /\ h.first = NoneDoc) =>
            /\ pc = "done"
            /\ result = Raised(QuantinuumAPIError("Unable to retrive job"))
            /\ h.fetches = 1 /\ h.sleeps = 0 /\ h.opens = 0 /\ h.polls = 0
            /\ run.starts = 0
    /\ (InRetrieve /\ h.mode = "poll" /\ h.last = NoneDoc) =>
            pc = "done" /\ result = Returned(NoneDoc)
C6_Witness ==
    /\ InRetrieve /\ pc = "done" /\ h.first = NoneDoc
    /\ result.kind = "raise" /\ h.fetches = 1

\* the model stops a call that has used up its status fetches
FetchBudgetSpent == pc \in {"wait_fetch", "poll_fetch"} /\ h.fetches >= MaxFetches

\* C7: with a timeout configured and the clock advancing, a retrieve_job call
\* in push mode eventually returns, also when the job never becomes terminal,
\* the channel stays alive and only non-terminal messages or receive timeouts
\* occur.
C7_PushWaitEventuallyReturns ==
    (InRetrieve /\ h.mode = "push" /\ timeout # None) ~> (pc = "done" \/ FetchBudgetSpent)

\* C8: when the scope of a with-block override ends, timeout and retry_timeout
\* are again the values they had just before the with statement, whether the
\* body returned or raised, and an exception raised in the body propagates.
C8_ScopedOverrideRestores ==
    [][\A i \in 1..Len(mgrs) :
          (mgrs[i].with_block /\ mgrs[i].entered /\ lastExit'.valid /\ mgrs' = Remove(mgrs, i))
          => /\ timeout' = mgrs[i].pre_t
             /\ retry_timeout' = mgrs[i].pre_r
             /\ lastExit'.exc => lastExit'.propagates]_vars
C8_Witness ==
    /\ lastExit.valid /\ lastExit.with /\ lastExit.exc /\ lastExit.propagates
    /\ lastExit.over = <<MaxTimeout, 1>>
    /\ timeout = None /\ retry_timeout = DEFAULT_RETRY_TIMEOUT

LoginDone == op = "login" /\ pc = "done"

\* C9: login() with no stored refresh token and no federated provider calls
\* _get_credentials exactly once, whether the login request succeeds or fails.
C9_CredentialsCollectedOnce ==
    (LoginDone /\ lg.pre.rf = None /\ provider = NoProvider) => lg.n.creds = 1
C9_Witness ==
    /\ LoginDone /\ lg.pre.rf = None /\ provider = NoProvider
    /\ result.kind = "raise" /\ lg.n.creds = 1 /\ lg.n.posts = 2

\* C10: login() holding a refresh token but no access token sends one refresh
\* request; if the reply reports the refresh token invalid, exactly one full
\* login is attempted and its failure reaches the caller; any other failed
\* reply raises at once, with no full login and no credential prompt.
C10_RefreshFallsBackOnlyOnInvalidToken ==
    (LoginDone /\ lg.pre.rf # None /\ lg.pre.id = None) =>
        /\ lg.n.refresh = 1
        /\ lg.n.inv = 1 => /\ lg.n.full = 1
                           /\ lg.n.ok = 0 => result.kind = "raise"
        /\ lg.n.bad = 1 => /\ result.kind = "raise"
                           /\ lg.n.full = 0 /\ lg.n.creds = 0 /\ lg.n.mfa = 0
                           /\ lg.n.posts = 0
C10_Witness ==
    /\ LoginDone /\ lg.pre.rf # None /\ lg.pre.id = None
    /\ lg.n.inv = 1 /\ lg.n.full = 1 /\ lg.n.ok = 0 /\ result.kind = "raise"

\* C11: whenever login() returns, it returns a present access token, the one
\* the credential store holds, and the store holds a refresh token too; when
\* the call leaves no token in the store it raises instead of returning; with
\* both tokens stored beforehand it returns the stored access token and sends
\* no request.
C11_LoginReturnsStoredToken ==
    LoginDone =>
        /\ result.kind \in {"return", "raise"}
        /\ result.kind = "return" =>
              /\ result.tok # None
              /\ result.tok = id_token
              /\ refresh_token # None
        /\ (id_token = None \/ refresh_token = None) => result.kind = "raise"
        /\ (lg.pre.id # None /\ lg.pre.rf # None) =>
              /\ result = ReturnedToken(lg.pre.id)
              /\ lg.n = Zero
              /\ Store(id_token, refresh_token) = lg.pre
C11_Witness ==
    /\ LoginDone /\ result.kind = "return"
    /\ lg.pre.id = None /\ lg.pre.rf # None /\ lg.n.refresh = 1 /\ lg.n.full = 0
    /\ result.tok = id_token /\ id_token # None

\* C12: full login with username and password: when the server answers the
\* login request with "MFA required" (401, code 73), then with MFA support
\* disabled the login raises at once, with no prompt and no second request;
\* with MFA support enabled exactly one verification code is prompted for and
\* exactly one resubmission is sent; a full login sends at most two login
\* requests.
C12_MfaResubmitsOnce ==
    (LoginDone /\ lg.n.full = 1 /\ provider = NoProvider) =>
        /\ lg.n.posts \in {1, 2}
        /\ lg.n.mfareq \in {0, 1}
        /\ (lg.n.mfareq = 1 /\ ~support_mfa) =>
              /\ result = Raised(QuantinuumAPIError("This API instance does not support MFA login."))
              /\ lg.n.mfa = 0 /\ lg.n.posts = 1 /\ lg.n.ok = 0
        /\ (lg.n.mfareq = 1 /\ support_mfa) => (lg.n.mfa = 1 /\ lg.n.posts = 2)
        /\ lg.n.mfareq = 0 => (lg.n.mfa = 0 /\ lg.n.posts = 1)
C12_Witness ==
    /\ LoginDone /\ lg.n.full = 1 /\ provider = NoProvider
    /\ lg.n.mfareq = 1 /\ ~support_mfa /\ result.kind = "raise" /\ lg.n.posts = 1

\* the error kind of an authorization failure: what a 401 response raises
AuthErrorKind == response_check(HTTP_UNAUTHORIZED, "Login").cls
SupportedProvider == provider # NoProvider /\ Lower(provider) = AZURE_PROVIDER

\* C13: a full login with a federated provider configured that is not a
\* supported one fails with the authentication error kind (that of a 401
\* response and of an unsupported-MFA login), sends no login request and
\* leaves the credential store unchanged.
C13_UnsupportedProviderIsAuthError ==
    (LoginDone /\ lg.n.full = 1 /\ provider # NoProvider /\ ~SupportedProvider) =>
        /\ result.kind = "raise"
        /\ result.exc.cls = AuthErrorKind
        /\ lg.n.posts = 0 /\ lg.n.fed = 0
        /\ Store(id_token, refresh_token) = lg.pre

\* C17: after any sequence of logins and refreshes, delete_authentication()
\* leaves the credential store with no access token and no refresh token, and
\* the next login() takes the full-login path (credential collection or the
\* federated exchange) and neither reuses nor refreshes a token.
C17_DeleteForcesFullLogin ==
    /\ (op = "delete_authentication" /\ pc = "done") =>
            (id_token = None /\ refresh_token = None)
    /\ (pc = "idle" /\ lg.after_delete) => (id_token = None /\ refresh_token = None)
    /\ (LoginDone /\ lg.after_delete) =>
            /\ lg.pre = Store(None, None)
            /\ lg.n.full = 1 /\ lg.n.refresh = 0
            /\ provider = NoProvider => lg.n.creds = 1
            /\ SupportedProvider => lg.n.fed = 1
            /\ result.kind = "return" => lg.n.ok = 1
C17_Witness ==
    /\ LoginDone /\ lg.after_delete /\ lg.n.full = 1 /\ lg.n.creds = 1
    /\ result.kind = "return"

JobOps == {"_submit_job", "submit", "cancel", "status", "retrieve_job_status", "retrieve_job"}
OpDone(name) == op = name /\ pc = "done"

C15_ResponseCheckPasses2xx ==
    \A name \in {"cancel", "status", "retrieve_job_status"} :
        (OpDone(name) /\ h.reqs.sent = 1) =>
            /\ h.reqs.code = HTTP_UNAUTHORIZED =>
                  result = Raised(QuantinuumAPIError("Authorization failure"))
            /\ (~Is2xx(h.reqs.code) /\ h.reqs.code # HTTP_UNAUTHORIZED) =>
                  result = Raised(QuantinuumAPIError("HTTP error"))
            /\ Is2xx(h.reqs.code) =>
                  ~(result.kind = "raise" /\ result.exc.cls = "QuantinuumAPIError")

\* C16: every request sent to a job or machine endpoint (submit, job status,
\* cancel, machine status) comes after a login() call of the same operation
\* that returned, and carries the token that login() returned; when login()
\* fails, the operation fails and sends no such request.
C16_RequestsGatedByLogin ==
    (op \in JobOps) =>
        /\ h.reqs.gated
        /\ h.reqs.sent >= 1 => (h.reqs.logins >= 1 /\ h.reqs.header = h.reqs.token
                                /\ h.reqs.header # None)
        /\ (pc = "done" /\ h.reqs.logins = 0) => (h.reqs.sent = 0 /\ result.kind = "raise")
C16_Witness ==
    /\ OpDone("cancel") /\ h.reqs.sent = 1 /\ h.reqs.logins = 1
    /\ h.reqs.header = id_token /\ result.kind = "return"

\* C18: offline stub: after any sequence of submit calls with bodies b1..bn,
\* interleaved with any other stub operations, get_jobs() returns exactly
\* <<b1, ..., bn>> in submission order, and each submit returns no id.
C18_GetJobsReturnsSubmissions ==
    /\ off.op = "get_jobs" => off.jobs = bodies
    /\ off.op = "_submit_job" => off.result = Returned(NoneDoc)
    /\ (off.op = "get_jobs" /\ Len(bodies) = 1) => off.jobs = <<bodies[1]>>
C18_Witness ==
    /\ off.op = "get_jobs" /\ off.jobs = <<2, 1, 1>> /\ bodies = <<2, 1, 1>>

OfflineError(e) == e.cls = "QuantinuumAPIError" /\ e.msg # ""

\* C19: offline stub: in every state, job status retrieval, retrieve_job,
\* cancel and response validation raise the offline error, login returns the
\* empty token and machine status returns the fixed sentinel; none of these
\* operations changes the recorded sequence of submitted jobs.
C19_OfflineOperationsFailOrStub ==
    /\ off.op \in {"retrieve_job_status", "retrieve_job", "cancel", "_response_check"} =>
            /\ off.result.kind = "raise"
            /\ OfflineError(off.result.exc)
            /\ submitted = off.before /\ submitted = bodies
    /\ off.op = "login" =>
            (off.result = ReturnedStr("") /\ submitted = off.before /\ submitted = bodies)
    /\ off.op = "status" =>
            (off.result = ReturnedStr("unclear") /\ submitted = off.before /\ submitted = bodies)
C19_Witness ==
    /\ off.op = "retrieve_job" /\ off.result.kind = "raise" /\ submitted = <<1, 2>>

\* the channel, the fetch count, the open count and the sleep count stay as
\* they are in this step
SameChannel ==
    /\ ws' = ws
    /\ h'.fetches = h.fetches /\ h'.opens = h.opens /\ h'.sleeps = h.sleeps

\* C20: push mode: after a receive timeout the waiter sends a liveness probe;
\* when the probe is answered it goes on receiving on the same channel, with
\* no new status fetch and without reopening the channel; when the probe times
\* out too, it sleeps the retry interval exactly once, leaves the channel and
\* starts over at the top of the wait loop, where (unless the overall timeout
\* has elapsed) the status is fetched again before any channel is opened.
C20_ProbeThenContinueOrRestart ==
    [][/\ (pc = "ws_recv" /\ pc' = "ws_ping") =>
              (h'.fetches = h.fetches /\ h'.opens = h.opens /\ h'.sleeps = h.sleeps)
       /\ (pc = "ws_ping" /\ pc' = "ws_recv") => (SameChannel /\ ws = "open")
       /\ (pc = "ws_ping" /\ pc' = "ws_sleep") => SameChannel
       /\ (pc = "ws_ping" /\ pc' # pc) => pc' \in {"ws_recv", "ws_sleep", "done", "wait_top"}
       /\ (pc = "ws_sleep" /\ pc' # pc) =>
              /\ pc' = "wait_top"
              /\ ws' = "none"
              /\ h'.sleeps = h.sleeps + 1
              /\ h'.fetches = h.fetches /\ h'.opens = h.opens
       /\ (pc = "wait_top" /\ pc' # pc) =>
              /\ h'.sleeps = h.sleeps /\ h'.opens = h.opens /\ h'.fetches = h.fetches
              /\ IF TimedOut THEN pc' = "done" ELSE pc' = "wait_fetch"
       /\ (pc = "wait_fetch" /\ pc' = "ws_connect") =>
              (h'.fetches = h.fetches + 1 /\ h'.sleeps = h.sleeps /\ h'.opens = h.opens)
       /\ (pc' = "ws_connect" /\ pc # pc') => pc = "wait_fetch"
      ]_vars
C20_Witness ==
    /\ InRetrieve /\ h.mode = "push" /\ pc = "ws_connect"
    /\ h.sleeps = 1 /\ h.opens = 1 /\ h.fetches = 3 /\ run.starts = 1

\* C21: push mode: a channel closed while the waiter is receiving is handled
\* inside the waiter and does not reach the caller as an error: the probe on
\* the closed channel fails and the waiter sleeps and starts over.
C21_ClosureNeverSurfaces ==
    (InRetrieve /\ h.mode = "push" /\ pc = "done" /\ h.from = "ping") =>
        result.kind # "raise"

\* C22: push mode: a push message that decodes to something that is not a
\* mapping makes retrieve_job fail, and nothing is retried: after that message
\* the call performs no status fetch, channel open, handshake or receive.
C22_MalformedMessageIsFatal ==
    (InRetrieve /\ h.mode = "push" /\ h.last = NonDict) =>
        (pc = "done" /\ result.kind = "raise")

\* C23: an interrupt during the poll loop or the push receive loop makes
\* retrieve_job abort with an error; after it the call performs no status
\* fetch, sleep, channel open or receive.
C23_InterruptAborts ==
    (InRetrieve /\ h.interrupted) => (pc = "done" /\ result.kind = "raise")

\* C24: within one retrieve_job call in push mode the wait procedure is
\* started on exactly one event loop: never on the existing loop and then
\* again on a new one, whatever the outcome of the first run.
C24_WaitStartedOnce ==
    (InRetrieve /\ h.mode = "push") => run.starts <= 1

\* C25: push mode: when the status fetched again by the waiter is
\* non-terminal and carries no push-channel details, the waiter goes over to
\* poll mode; it does not fail and opens no channel.
C25_RefetchWithoutChannelPolls ==
    (InRetrieve /\ h.mode = "push" /\ pc = "done" /\ h.from = "wait"
       /\ jr.kind = "dict" /\ ~Terminal(jr) /\ ~jr.websocket) =>
        result.kind # "raise"

\* C26: for any sequence of creating override scopes, assigning timeout and
\* retry_timeout directly, entering scopes and exiting them, the exit of a
\* scope restores the timeout and retry_timeout that were in effect
\* immediately before that scope was entered.
C26_ExitRestoresValuesBeforeEntry ==
    [][\A i \in 1..Len(mgrs) :
          (mgrs[i].entered /\ lastExit'.valid /\ mgrs' = Remove(mgrs, i))
          => /\ timeout' = mgrs[i].pre_t
             /\ retry_timeout' = mgrs[i].pre_r]_vars

\* C27: a login or token-refresh request that ends in an error (401, another
\* non-OK response, MFA required while unsupported) leaves the access token
\* and the refresh token in the credential store as they were; tokens are
\* written only after a response that passed validation, and then both are
\* written together.
C27_FailedRequestLeavesStore ==
    LoginDone =>
        /\ result.kind = "raise" => Store(id_token, refresh_token) = lg.pre
        /\ lg.n.ok = 0 => Store(id_token, refresh_token) = lg.pre
        /\ Store(id_token, refresh_token) # lg.pre =>
              (lg.n.ok = 1 /\ id_token # None /\ refresh_token # None)
        /\ lg.n.ok = 1 => (id_token # None /\ refresh_token # None)
C27_Witness ==
    /\ LoginDone /\ result.kind = "raise"
    /\ lg.pre.id = None /\ lg.pre.rf # None
    /\ lg.n.refresh = 1 /\ lg.n.bad = 1
    /\ Store(id_token, refresh_token) = lg.pre

\* C28: with no timeout configured, every normal return of retrieve_job, in
\* poll mode and in push mode, yields a status document whose status is in
\* {failed, completed, canceled} or the absence of a document, never a
\* document with a non-terminal or missing status.
C28_NoTimeoutReturnsTerminalOrAbsent ==
    (InRetrieve /\ pc = "done" /\ timeout = None /\ result.kind = "return") =>
        (Terminal(result.val) \/ result.val = NoneDoc)
C28_Witness ==
    /\ InRetrieve /\ pc = "done" /\ timeout = None /\ h.mode = "poll"
    /\ result = Returned(NoneDoc) /\ h.from = "poll_break" /\ h.sleeps = 1

\* the channel of the running wait is in use (open, or closed by the peer and
\* not yet left)
ChannelHeld == ws # "none"

\* C29: during a retrieve_job call at most one push channel is held at any
\* time: a channel is opened only when none is held, the channel of a wait
\* round is left before the status is fetched again, and none is held when
\* retrieve_job returns or raises; on each open the handshake with the task
\* token and execution reference of the most recent status fetch is sent
\* before the first receive.
C29_OneChannelHandshakeFirst ==
    /\ pc \in {"idle", "done", "get_event_loop", "wait_top", "wait_fetch", "ws_connect",
                "poll_top", "poll_fetch", "poll_sleep"} => ~ChannelHeld
    /\ pc \in {"ws_send", "ws_recv", "ws_ping", "ws_sleep"} => ChannelHeld
    /\ pc = "ws_send" => (ws = "open" /\ h.handshakes = h.opens - 1)
    /\ pc \in {"ws_recv", "ws_ping", "ws_sleep"} =>
          (h.handshakes = h.opens /\ h.hsFetch = h.fetches)
    /\ h.handshakes <= h.opens
    /\ h.opens >= 1 => h.opens < h.fetches
C29_Witness ==
    /\ InRetrieve /\ pc = "ws_recv" /\ ws = "open"
    /\ h.opens = 2 /\ h.handshakes = 2 /\ h.fetches = 3 /\ h.hsFetch = 3 /\ h.sleeps = 1
====
